---- MODULE Spec2Model ----
(***************************************************************************)
(* Shader parameter handling (src/render/shade.rs): the two ShaderParam    *)
(* implementations (the empty source Option<R> and ParamDictionary), the   *)
(* link they build against a program's ProgramInfo and the filling of a    *)
(* ParamStorage from a link.                                               *)
(*                                                                         *)
(* Indices are kept 0-based as in the code (Vec indices, ParameterId);     *)
(* At(s, i) reads element i of a vector.  Option values are modelled as    *)
(* tuples: None == <<>>, Some(v) == <<v>>.  A Rust panic (unwrap on None,  *)
(* index out of range) ends the program: pc = "aborted".                   *)
(***************************************************************************)
EXTENDS Integers, Sequences, FiniteSets, TLC

\* ---- bounds of the model ----
\* cells of one dictionary, over its three lists together
MaxCells == 2
\* variables one program declares, over its three lists together
MaxVars == 2
\* slots a storage array may hold beyond the program's variable count
MaxExtra == 1

Names == {"a", "b"}
Values == {1, 2}

\* the three categories, in the order the code walks them
Cats == <<"uniforms", "blocks", "textures">>
CatSet == {"uniforms", "blocks", "textures"}

None == <<>>
Some(v) == <<v>>

\* vec[i] with a 0-based index
At(s, i) == s[i + 1]

SeqsUpTo(S, n) == UNION {[1..k -> S] : k \in 0..n}

\* NamedCell<T>: a name and a RefCell value
NamedCell == [name : Names, value : Values]

TotalLen(f) == Len(f.uniforms) + Len(f.blocks) + Len(f.textures)

\* ParamDictionary: three lists of named cells
ParamDictionary ==
    {d \in [CatSet -> SeqsUpTo(NamedCell, MaxCells)] : TotalLen(d) <= MaxCells}

EmptyDictionary == [c \in CatSet |-> <<>>]

\* no element occurs twice
Distinct(s) == \A i, j \in 1..Len(s) : s[i] = s[j] => i = j

\* shade::ProgramInfo: three ordered lists of variables (their names); the
\* reflection of a program lists every variable of a category once
ProgramInfo ==
    {p \in [CatSet -> SeqsUpTo(Names, MaxVars)] :
        TotalLen(p) <= MaxVars /\ \A c \in CatSet : Distinct(p[c])}

\* ParameterError variants
MissingSelf == <<"MissingSelf">>
MissingUniform(n) == <<"MissingUniform", n>>
MissingBlock(n) == <<"MissingBlock", n>>
MissingTexture(n) == <<"MissingTexture", n>>
Missing(c, n) ==
    IF c = "uniforms" THEN MissingUniform(n)
    ELSE IF c = "blocks" THEN MissingBlock(n)
    ELSE MissingTexture(n)

BadUniform(n) == <<"BadUniform", n>>
BadBlock(n) == <<"BadBlock", n>>
BadTexture(n) == <<"BadTexture", n>>
Bad(c, n) ==
    IF c = "uniforms" THEN BadUniform(n)
    ELSE IF c = "blocks" THEN BadBlock(n)
    ELSE BadTexture(n)

\* the kind the program declares for the variable of that name (the metadata
\* of shade::UniformVar / BlockVar / SamplerVar) and the kind of a cell value
DeclaredKind(name) == IF name = "a" THEN "I32" ELSE "F32"
KindOf(v) == IF v = 1 THEN "I32" ELSE "F32"

\* Parameter::check_uniform / check_block / check_texture of the three
\* implementing families: accept every variable
check_uniform(var) == TRUE
check_block(var) == TRUE
check_texture(var) == TRUE

\* outcomes of create_link: Result<Link, ParameterError>, or a panic
Ok(l) == [tag |-> "Ok", link |-> l]
Err(e) == [tag |-> "Err", err |-> e]
Panic == [tag |-> "Panic"]
NoResult == [tag |-> "Unset"]

\* the Link of the empty source: ()
Unit == <<>>

VARIABLES
    kind,      \* the ShaderParam implementation in use: "empty" or "dict"
               \* ("param" where only Parameter::put is exercised)
    dict,      \* the ParamDictionary (cell names and current cell values)
    info,      \* the program's ProgramInfo
    params,    \* the ParamStorage handed to fill_params
    src,       \* the Option<&Self> passed to create_link: "None" or "Some"
    res,       \* what create_link returned
    pc,        \* "start", "linked", "failed", "filled", "aborted"
    ops,       \* the last two operations performed
    before,    \* the storage as it was when fill_params was last called
    lastMut,   \* the cell the last value mutation wrote: <<category, index>>
               \* (<<"none", 0>> before the first mutation)
    borrows,   \* the RefCell borrow flag of every cell: 0 unborrowed, n > 0
               \* shared by n Ref, -1 mutably borrowed
    call       \* the arguments of the last Parameter::put call

vars ==
    <<kind, dict, info, params, src, res, pc, ops, before, lastMut, borrows, call>>

\* ---- Option<R> as ShaderParam ----

\* create_link of the empty source without the check of the textures
EmptyCreateLinkNoTextures(this, pinfo) ==
    IF Len(pinfo.uniforms) > 0 THEN Err(MissingUniform(Head(pinfo.uniforms)))
    ELSE IF Len(pinfo.blocks) > 0 THEN Err(MissingBlock(Head(pinfo.blocks)))
    ELSE Ok(Unit)

\* create_link of the empty source checking the blocks before the uniforms
EmptyCreateLinkBlocksFirst(this, pinfo) ==
    IF Len(pinfo.blocks) > 0 THEN Err(MissingBlock(Head(pinfo.blocks)))
    ELSE IF Len(pinfo.uniforms) > 0 THEN Err(MissingUniform(Head(pinfo.uniforms)))
    ELSE IF Len(pinfo.textures) > 0 THEN Err(MissingTexture(Head(pinfo.textures)))
    ELSE Ok(Unit)

\* create_link of the empty source matching on the source like the dictionary
EmptyCreateLinkSelfCheck(this, pinfo) ==
    IF this = "None" THEN Err(MissingSelf)
    ELSE IF Len(pinfo.uniforms) > 0 THEN Err(MissingUniform(Head(pinfo.uniforms)))
    ELSE IF Len(pinfo.blocks) > 0 THEN Err(MissingBlock(Head(pinfo.blocks)))
    ELSE IF Len(pinfo.textures) > 0 THEN Err(MissingTexture(Head(pinfo.textures)))
    ELSE Ok(Unit)

\* Option<R>::create_link
EmptyCreateLink(this, pinfo) ==
    IF Len(pinfo.uniforms) > 0 THEN Err(MissingUniform(Head(pinfo.uniforms)))
    ELSE IF Len(pinfo.blocks) > 0 THEN Err(MissingBlock(Head(pinfo.blocks)))
    ELSE IF Len(pinfo.textures) > 0 THEN Err(MissingTexture(Head(pinfo.textures)))
    ELSE Ok(Unit)

\* Option<R>::fill_params
EmptyFillParams(link, storage) == [ok |-> TRUE, params |-> storage]

\* ---- ParamDictionary as ShaderParam ----

\* iter().position(|c| c.name == name), scanning from index k
RECURSIVE PositionFrom(_, _, _)
PositionFrom(cells, name, k) ==
    IF k >= Len(cells) THEN None
    ELSE IF At(cells, k).name = name THEN Some(k)
    ELSE PositionFrom(cells, name, k + 1)

\* iter().rposition(..): the last cell of that name instead of the first
RECURSIVE PositionBack(_, _, _)
PositionBack(cells, name, k) ==
    IF k < 0 THEN None
    ELSE IF At(cells, k).name = name THEN Some(k)
    ELSE PositionBack(cells, name, k - 1)

positionLast(cells, name) == PositionBack(cells, name, Len(cells) - 1)

\* position(|c| c.name == name && <the value is of the declared kind>)
RECURSIVE PositionOfKindFrom(_, _, _)
PositionOfKindFrom(cells, name, k) ==
    IF k >= Len(cells) THEN None
    ELSE IF At(cells, k).name = name /\ KindOf(At(cells, k).value) = DeclaredKind(name)
    THEN Some(k)
    ELSE PositionOfKindFrom(cells, name, k + 1)

positionOfKind(cells, name) == PositionOfKindFrom(cells, name, 0)

position(cells, name) == PositionFrom(cells, name, 0)

\* the resolution walking the dictionary's cells instead of the variables
ResolveCells(cells, pvars) == [i \in 1..Len(cells) |-> Some(i - 1)]

\* info.<cat>.iter().map(|var| this.<cat>.iter().position(..)) before unwrap
Resolve(cells, pvars) == [i \in 1..Len(pvars) |-> position(cells, pvars[i])]

\* create_link of the dictionary with this.unwrap() for the MissingSelf match
DictCreateLinkUnwrapSelf(this, d, pinfo) ==
    IF this = "None" THEN Panic
    ELSE LET r == [c \in CatSet |-> Resolve(d[c], pinfo[c])]
         IN  IF \E c \in CatSet : \E i \in 1..Len(r[c]) : r[c][i] = None
             THEN Panic
             ELSE Ok([c \in CatSet |-> [i \in 1..Len(r[c]) |-> r[c][i][1]]])

\* create_link of the dictionary comparing, after the resolution, the kind of
\* every resolved cell's value with the kind the program declares
DictCreateLinkKindChecked(this, d, pinfo) ==
    IF this = "None" THEN Err(MissingSelf)
    ELSE LET r == [c \in CatSet |-> Resolve(d[c], pinfo[c])]
             bad == {ci \in CatSet \X (1..MaxVars + 1) :
                        /\ ci[2] <= Len(pinfo[ci[1]])
                        /\ KindOf(At(d[ci[1]], r[ci[1]][ci[2]][1]).value)
                            # DeclaredKind(pinfo[ci[1]][ci[2]])}
         IN  IF \E c \in CatSet : \E i \in 1..Len(r[c]) : r[c][i] = None
             THEN Panic
             ELSE IF bad # {}
             THEN LET ci == CHOOSE x \in bad : TRUE
                  IN  Err(Bad(ci[1], pinfo[ci[1]][ci[2]]))
             ELSE Ok([c \in CatSet |-> [i \in 1..Len(r[c]) |-> r[c][i][1]]])

\* ParamDictionary::create_link
DictCreateLink(this, d, pinfo) ==
    IF this = "None" THEN Err(MissingSelf)
    ELSE LET r == [c \in CatSet |-> Resolve(d[c], pinfo[c])]
         IN  IF \E c \in CatSet : \E i \in 1..Len(r[c]) : r[c][i] = None
             THEN Panic
             ELSE Ok([c \in CatSet |-> [i \in 1..Len(r[c]) |-> r[c][i][1]]])

\* storage.<cat>.push(Some(v)) for the indexed assignment
PutSlotPush(arr, id, v) == Append(arr, Some(v))

\* storage.<cat>[id] = Some(v)
PutSlot(arr, id, v) == [arr EXCEPT ![id + 1] = Some(v)]

\* RefCell::borrow: a shared borrow, refused (panic) while mutably borrowed
CanBorrow(flag) == flag >= 0
Borrow(flag) == flag + 1

\* RefCell::borrow_mut: refused (panic) while borrowed in any way
CanBorrowMut(flag) == flag = 0

\* a Ref kept alive (mem::forget, or stored) instead of dropped
DropRefForget(flag) == flag

\* the Ref temporary of `.value.borrow().clone()` dropped at the end of the
\* statement (and by unwinding when the statement panics)
DropRef(flag) == flag - 1

\* the loop with `if let Some(cell) = self.<cat>.get(id)`: an index the
\* dictionary list does not have is skipped
RECURSIVE FillLoopSkip(_, _, _, _, _)
FillLoopSkip(cells, flags, ids, arr, k) ==
    IF k > Len(ids) THEN [ok |-> TRUE, arr |-> arr, flags |-> flags]
    ELSE LET id == ids[k]
         IN  IF id >= Len(cells) THEN FillLoopSkip(cells, flags, ids, arr, k + 1)
             ELSE IF ~CanBorrow(At(flags, id)) \/ id >= Len(arr)
             THEN [ok |-> FALSE, arr |-> arr, flags |-> flags]
             ELSE FillLoopSkip(cells, flags, ids,
                               PutSlot(arr, id, At(cells, id).value), k + 1)

\* one `for &id in link.<cat>.iter()` loop of fill_params, from entry k on:
\* index the cell, borrow it, clone the value, index the slot, assign, drop
RECURSIVE FillLoop(_, _, _, _, _)
FillLoop(cells, flags, ids, arr, k) ==
    IF k > Len(ids) THEN [ok |-> TRUE, arr |-> arr, flags |-> flags]
    ELSE LET id == ids[k]
         IN  IF id >= Len(cells) \/ ~CanBorrow(At(flags, id))
             THEN [ok |-> FALSE, arr |-> arr, flags |-> flags]
             ELSE LET held == [flags EXCEPT ![id + 1] = Borrow(@)]
                      released == [held EXCEPT ![id + 1] = DropRef(@)]
                  IN  IF id >= Len(arr)
                      THEN [ok |-> FALSE, arr |-> arr, flags |-> released]
                      ELSE FillLoop(cells, released, ids,
                                    PutSlot(arr, id, At(cells, id).value), k + 1)

\* ParamDictionary::fill_params: the three loops in order; a panic in one
\* loop leaves the writes made so far and skips the rest
DictFillParams(d, flags, link, storage) ==
    LET u == FillLoop(d.uniforms, flags.uniforms, link.uniforms, storage.uniforms, 1)
        b == FillLoop(d.blocks, flags.blocks, link.blocks, storage.blocks, 1)
        t == FillLoop(d.textures, flags.textures, link.textures, storage.textures, 1)
    IN  IF ~u.ok
        THEN [ok |-> FALSE,
              params |-> [storage EXCEPT !.uniforms = u.arr],
              borrows |-> [flags EXCEPT !.uniforms = u.flags]]
        ELSE IF ~b.ok
        THEN [ok |-> FALSE,
              params |-> [storage EXCEPT !.uniforms = u.arr, !.blocks = b.arr],
              borrows |-> [flags EXCEPT !.uniforms = u.flags, !.blocks = b.flags]]
        ELSE [ok |-> t.ok,
              params |-> [uniforms |-> u.arr, blocks |-> b.arr, textures |-> t.arr],
              borrows |-> [uniforms |-> u.flags, blocks |-> b.flags,
                           textures |-> t.flags]]

\* ---- Parameter ----

\* the types the uniform! macro implements Into<UniformValue> for
UniformTypes ==
    {"i32", "f32", "[i32; 2]", "[i32; 3]", "[i32; 4]",
     "[f32; 2]", "[f32; 3]", "[f32; 4]",
     "[[f32; 2]; 2]", "[[f32; 3]; 3]", "[[f32; 4]; 4]"}

\* the three families implementing Parameter
ParameterTypes == UniformTypes \cup {"RawBuffer", "TextureParam"}

\* uniform!(ty_src, ty_dst): the UniformValue variant wrapping a value of ty
Variant(ty) ==
    CASE ty = "i32" -> "I32"
      [] ty = "f32" -> "F32"
      [] ty = "[i32; 2]" -> "I32Vector2"
      [] ty = "[i32; 3]" -> "I32Vector3"
      [] ty = "[i32; 4]" -> "I32Vector4"
      [] ty = "[f32; 2]" -> "F32Vector2"
      [] ty = "[f32; 3]" -> "F32Vector3"
      [] ty = "[f32; 4]" -> "F32Vector4"
      [] ty = "[[f32; 2]; 2]" -> "F32Matrix2"
      [] ty = "[[f32; 3]; 3]" -> "F32Matrix3"
      [] ty = "[[f32; 4]; 4]" -> "F32Matrix4"

\* Into<UniformValue>::into
into(ty, v) == <<Variant(ty), v>>

\* the storage array a parameter of that type is written to
ArrayOf(ty) ==
    IF ty \in UniformTypes THEN "uniforms"
    ELSE IF ty = "RawBuffer" THEN "blocks"
    ELSE "textures"

\* the value a parameter self = [ty, v] stores: converted for a uniform,
\* cloned for a buffer handle and a texture parameter
Stored(self) == IF self.ty \in UniformTypes THEN into(self.ty, self.v) ELSE self.v

\* Vec::insert for the indexed assignment: the slots from id on move up
putInsert(self, id, storage) ==
    LET c == ArrayOf(self.ty)
        arr == storage[c]
    IN  IF id >= Len(arr) THEN [ok |-> FALSE, params |-> storage]
        ELSE [ok |-> TRUE,
              params |-> [storage EXCEPT
                  ![c] = [j \in 1..Len(arr) |->
                            IF j < id + 1 THEN arr[j]
                            ELSE IF j = id + 1 THEN Some(Stored(self))
                            ELSE arr[j - 1]]]]

\* Parameter::put of the three families
put(self, id, storage) ==
    LET c == ArrayOf(self.ty)
    IN  IF id >= Len(storage[c]) THEN [ok |-> FALSE, params |-> storage]
        ELSE [ok |-> TRUE,
              params |-> [storage EXCEPT ![c] = PutSlot(@, id, Stored(self))]]

NoCall == [self |-> [ty |-> "none", v |-> 1], id |-> 0]

\* ---- state machine ----

\* a ParamStorage with n + e empty slots per category
Reserved(pinfo, e) == [c \in CatSet |-> [i \in 1..(Len(pinfo[c]) + e) |-> None]]

Push(o) == <<ops[2], o>>

Init ==
    /\ kind \in {"empty", "dict"}
    /\ dict \in IF kind = "dict" THEN ParamDictionary ELSE {EmptyDictionary}
    /\ info \in ProgramInfo
    /\ \E e \in 0..MaxExtra : params = Reserved(info, e)
    /\ src = "None"
    /\ res = NoResult
    /\ pc = "start"
    /\ ops = <<"none", "none">>
    /\ before = params
    /\ lastMut = <<"none", 0>>
    /\ borrows = [c \in CatSet |-> [i \in 1..Len(dict[c]) |-> 0]]
    /\ call = NoCall

AfterLink(r) ==
    IF r.tag = "Ok" THEN "linked" ELSE IF r.tag = "Err" THEN "failed" ELSE "aborted"

CreateLinkEmpty ==
    /\ pc = "start" /\ kind = "empty"
    /\ \E this \in {"None", "Some"} :
        /\ src' = this
        /\ res' = EmptyCreateLink(this, info)
    /\ pc' = AfterLink(res')
    /\ ops' = Push("link")
    /\ UNCHANGED <<kind, dict, info, params, before, lastMut, borrows, call>>

CreateLinkDict ==
    /\ pc = "start" /\ kind = "dict"
    /\ \E this \in {"None", "Some"} :
        /\ src' = this
        /\ res' = DictCreateLink(this, dict, info)
    /\ pc' = AfterLink(res')
    /\ ops' = Push("link")
    /\ UNCHANGED <<kind, dict, info, params, before, lastMut, borrows, call>>

FillParamsEmpty ==
    /\ pc \in {"linked", "filled"} /\ kind = "empty"
    /\ LET r == EmptyFillParams(res.link, params)
       IN  /\ params' = r.params
           /\ pc' = IF r.ok THEN "filled" ELSE "aborted"
    /\ before' = params
    /\ ops' = Push("fill")
    /\ UNCHANGED <<kind, dict, info, src, res, lastMut, borrows, call>>

FillParamsDict ==
    /\ pc \in {"linked", "filled"} /\ kind = "dict"
    /\ LET r == DictFillParams(dict, borrows, res.link, params)
       IN  /\ params' = r.params
           /\ borrows' = r.borrows
           /\ pc' = IF r.ok THEN "filled" ELSE "aborted"
    /\ before' = params
    /\ ops' = Push("fill")
    /\ UNCHANGED <<kind, dict, info, src, res, lastMut, call>>

\* *cell.value.borrow_mut() = v on one cell of the dictionary; the RefMut is
\* dropped at the end of the statement; a cell still borrowed panics
SetValue ==
    /\ pc \in {"linked", "filled"} /\ kind = "dict"
    /\ \E c \in CatSet : \E i \in 0..(Len(dict[c]) - 1) : \E v \in Values :
        /\ v # At(dict[c], i).value
        /\ IF CanBorrowMut(At(borrows[c], i))
           THEN /\ dict' = [dict EXCEPT ![c][i + 1].value = v]
                /\ pc' = pc
           ELSE /\ dict' = dict
                /\ pc' = "aborted"
        /\ lastMut' = <<c, i>>
    /\ ops' = Push("set")
    /\ UNCHANGED <<kind, info, params, src, res, before, borrows, call>>

Next ==
    \/ CreateLinkEmpty
    \/ CreateLinkDict
    \/ FillParamsEmpty
    \/ FillParamsDict
    \/ SetValue

Spec == Init /\ [][Next]_vars

\* ---- a dictionary that loses cells after linking ----

\* s without its element at 0-based index i
RemoveAt(s, i) == [j \in 1..(Len(s) - 1) |-> IF j <= i THEN s[j] ELSE s[j + 1]]

\* dict.<cat>.remove(i) on a public cell list of the dictionary
RemoveCell ==
    /\ pc \in {"linked", "filled"} /\ kind = "dict"
    /\ \E c \in CatSet : \E i \in 0..(Len(dict[c]) - 1) :
        /\ dict' = [dict EXCEPT ![c] = RemoveAt(@, i)]
        /\ borrows' = [borrows EXCEPT ![c] = RemoveAt(@, i)]
    /\ ops' = Push("remove")
    /\ UNCHANGED <<kind, info, params, src, res, pc, before, lastMut, call>>

NextStale ==
    \/ CreateLinkEmpty
    \/ CreateLinkDict
    \/ FillParamsEmpty
    \/ FillParamsDict
    \/ RemoveCell

SpecStale == Init /\ [][NextStale]_vars

\* ---- Parameter::put on its own ----

InitPut ==
    /\ kind = "param"
    /\ dict = EmptyDictionary
    /\ info \in ProgramInfo
    /\ params = Reserved(info, 0)
    /\ src = "None"
    /\ res = NoResult
    /\ pc = "start"
    /\ ops = <<"none", "none">>
    /\ before = params
    /\ lastMut = <<"none", 0>>
    /\ borrows = [c \in CatSet |-> <<>>]
    /\ call = NoCall

\* one put call of a parameter of any family at any ParameterId
Put ==
    /\ pc \in {"start", "put"} /\ kind = "param"
    /\ \E ty \in ParameterTypes : \E v \in Values : \E id \in 0..MaxVars :
        LET self == [ty |-> ty, v |-> v]
            r == put(self, id, params)
        IN  /\ call' = [self |-> self, id |-> id]
            /\ params' = r.params
            /\ pc' = IF r.ok THEN "put" ELSE "aborted"
    /\ ops' = Push("put")
    /\ UNCHANGED <<kind, dict, info, src, res, before, lastMut, borrows>>

NextPut == Put

SpecPut == InitPut /\ [][NextPut]_vars

\* ---- properties ----

\* 0-based positions of a vector
Indices(s) == 0..(Len(s) - 1)

\* the smallest index of a cell of that name (the cell a variable resolves to)
FirstCell(cells, name) ==
    CHOOSE k \in Indices(cells) :
        /\ At(cells, k).name = name
        /\ \A m \in 0..(k - 1) : At(cells, m).name # name

HasCell(cells, name) == \E k \in Indices(cells) : At(cells, k).name = name

\* the last operation was a fill_params call that returned normally
FillReturned == ops[2] = "fill" /\ pc = "filled"

\* C1: after a successful dictionary create_link directly followed by
\* fill_params, slot i of every category holds Some(value of the cell named
\* like the program's i-th variable of that category).
C1_FillWritesVariablePosition ==
    (kind = "dict" /\ ops = <<"link", "fill">> /\ FillReturned) =>
        \A c \in CatSet : \A i \in Indices(info[c]) :
            At(params[c], i) =
                Some(At(dict[c], FirstCell(dict[c], At(info[c], i))).value)

\* C2: a dictionary fill_params that returns leaves every slot at an index
\* >= the program's variable count of that category as it was before the call.
C2_FillLeavesUndeclaredSlots ==
    (kind = "dict" /\ FillReturned) =>
        \A c \in CatSet : \A j \in Indices(params[c]) :
            j >= Len(info[c]) => At(params[c], j) = At(before[c], j)

\* the declared variables no cell of the dictionary's same category is named like
Unmatched ==
    {cn \in CatSet \X Names :
        /\ \E i \in Indices(info[cn[1]]) : At(info[cn[1]], i) = cn[2]
        /\ ~HasCell(dict[cn[1]], cn[2])}

\* C3: dictionary create_link with Some(dictionary) and a program declaring a
\* name the dictionary lacks returns Err(Missing<Category>(name)): no abort,
\* no link.
C3_MissingNameIsReturned ==
    (kind = "dict" /\ pc # "start" /\ src = "Some" /\ Unmatched # {}) =>
        /\ res.tag = "Err"
        /\ res.err \in {Missing(cn[1], cn[2]) : cn \in Unmatched}

\* C4: a link a dictionary create_link returned has, per category, one entry
\* per declared variable in declared order, entry i being the smallest index
\* of a cell named like the program's i-th variable.
C4_LinkIsFirstMatchPerVariable ==
    (kind = "dict" /\ res.tag = "Ok") =>
        \A c \in CatSet :
            /\ Len(res.link[c]) = Len(info[c])
            /\ \A i \in Indices(info[c]) :
                LET k == At(res.link[c], i)
                IN  /\ k \in Indices(dict[c])
                    /\ At(dict[c], k).name = At(info[c], i)
                    /\ \A m \in 0..(k - 1) : At(dict[c], m).name # At(info[c], i)

\* a link was built for a variable whose name two cells of the dictionary's
\* list carry
C4_Witness ==
    /\ kind = "dict" /\ res.tag = "Ok"
    /\ \E c \in CatSet : \E i \in Indices(info[c]) : \E k, m \in Indices(dict[c]) :
        /\ k # m
        /\ At(dict[c], k).name = At(info[c], i)
        /\ At(dict[c], m).name = At(info[c], i)

\* every storage array has exactly as many slots as the program has variables
ExactlySized == \A c \in CatSet : Len(params[c]) = Len(info[c])

\* C5: with a link create_link returned and a storage sized exactly to the
\* program's variable counts, fill_params never aborts.
C5_FillNeverFails ==
    (kind = "dict" /\ res.tag = "Ok" /\ ExactlySized) => pc # "aborted"

\* C6: empty-source create_link returns Ok(()) exactly when the program
\* declares no variable at all, and its fill_params returns with every
\* storage slot as it was.
C6_EmptySourceLinksOnlyEmptyProgram ==
    (kind = "empty" /\ pc # "start") =>
        /\ res.tag \in {"Ok", "Err"}
        /\ res.tag = "Ok" <=> TotalLen(info) = 0
        /\ res.tag = "Ok" => res.link = Unit
        /\ ops[2] = "fill" => (pc = "filled" /\ params = before)

\* the empty source was linked and filled into a storage that has slots
C6_Witness ==
    /\ kind = "empty" /\ FillReturned
    /\ \A c \in CatSet : Len(params[c]) >= 1

\* the first category, in the order uniforms, blocks, textures, of which the
\* program declares a variable
FirstDeclared ==
    IF info.uniforms # <<>> THEN "uniforms"
    ELSE IF info.blocks # <<>> THEN "blocks"
    ELSE "textures"

\* C7: for a program declaring a variable, empty-source create_link returns
\* the Missing error of the first declared category (uniforms, blocks,
\* textures) naming that category's first variable.
C7_EmptySourceErrorPriority ==
    (kind = "empty" /\ pc # "start" /\ TotalLen(info) >= 1) =>
        res = Err(Missing(FirstDeclared, At(info[FirstDeclared], 0)))

\* the empty source was linked against a program with no uniform, a block
\* and a texture
C7_Witness ==
    /\ kind = "empty" /\ pc = "failed"
    /\ info.uniforms = <<>> /\ info.blocks # <<>> /\ info.textures # <<>>

\* C8: dictionary create_link with source None returns Err(MissingSelf) for
\* every program, whatever names the program declares.
C8_NoneIsMissingSelf ==
    (kind = "dict" /\ pc # "start" /\ src = "None") =>
        (res = Err(MissingSelf) /\ pc = "failed")

\* None was passed with a program declaring a name the dictionary lacks
C8_Witness ==
    /\ kind = "dict" /\ pc = "failed" /\ src = "None"
    /\ Unmatched # {}

\* the positions of the program's variables that the link resolves to cell
\* <<c, k>>
PositionsOf(c, k) == {i \in Indices(res.link[c]) : At(res.link[c], i) = k}

\* C9: fill, one mutation of a cell the program references, fill again: the
\* second fill returns, leaves the link as it was, and changes the storage
\* only at the position of the variable resolved to that cell, which holds
\* the new value.
C9_Freshness ==
    [][(/\ kind = "dict" /\ ops = <<"fill", "set">> /\ ops' = <<"set", "fill">>
        /\ PositionsOf(lastMut[1], lastMut[2]) # {})
       =>
       (/\ pc' = "filled"
        /\ res' = res
        /\ \A c \in CatSet : \A j \in Indices(params[c]) :
            At(params'[c], j) # At(params[c], j) =>
                (c = lastMut[1] /\ j \in PositionsOf(lastMut[1], lastMut[2]))
        /\ \A j \in PositionsOf(lastMut[1], lastMut[2]) :
            At(params'[lastMut[1]], j) =
                Some(At(dict[lastMut[1]], lastMut[2]).value))]_vars

\* C10: a second dictionary fill_params directly after a first, with no
\* mutation in between, returns and leaves the storage as the first left it.
C10_FillIdempotent ==
    (kind = "dict" /\ ops = <<"fill", "fill">>) =>
        (pc = "filled" /\ params = before)

\* two fills in a row that wrote a slot, after a cell value was mutated
C10_Witness ==
    /\ kind = "dict" /\ ops = <<"fill", "fill">> /\ pc = "filled"
    /\ lastMut[1] # "none"
    /\ \E c \in CatSet : \E j \in Indices(params[c]) : At(params[c], j) # None

\* C11 as stated: for both source kinds, create_link with source None and a
\* program declaring a variable returns Err(MissingSelf).
C11_NoneIsMissingSelfForEveryKind ==
    (pc # "start" /\ src = "None" /\ TotalLen(info) >= 1) =>
        res = Err(MissingSelf)

\* C11 amended: with source None and a program declaring a variable, the
\* dictionary source returns Err(MissingSelf); the empty source ignores its
\* source argument and returns the Missing error of the first declared
\* variable.
C11_NoneByKind ==
    (pc # "start" /\ src = "None" /\ TotalLen(info) >= 1) =>
        /\ pc = "failed"
        /\ kind = "dict" => res = Err(MissingSelf)
        /\ kind = "empty" =>
            res = Err(Missing(FirstDeclared, Head(info[FirstDeclared])))

\* the empty source was linked with None against a program with a variable
C11_Witness ==
    /\ kind = "empty" /\ src = "None" /\ pc = "failed"
    /\ TotalLen(info) >= 1

AllReleased(flags) ==
    \A c \in CatSet : \A i \in Indices(flags[c]) : At(flags[c], i) = 0

\* C13: a fill_params call that returns (dictionary or empty source) leaves
\* the dictionary's cells (names, order, values) and the link as they were,
\* and no cell borrowed.
C13_FillReadsOnly ==
    [][(ops' = <<ops[2], "fill">> /\ pc' = "filled") =>
        (dict' = dict /\ res' = res /\ AllReleased(borrows'))]_vars

\* a dictionary fill returned after reading a cell into the storage
C13_Witness ==
    /\ kind = "dict" /\ FillReturned
    /\ \E c \in CatSet : Len(res.link[c]) >= 1
    /\ AllReleased(borrows)

\* C14: a put call that returns sets the slot at its id, in the array of its
\* family, to Some(the value, converted to UniformValue for a uniform), and
\* leaves every other slot of the three arrays as it was.
C14_PutWritesOneSlot ==
    [][(ops' = <<ops[2], "put">> /\ pc' = "put") =>
        LET c == ArrayOf(call'.self.ty)
        IN  /\ \A d \in CatSet : Len(params'[d]) = Len(params[d])
            /\ call'.id \in Indices(params[c])
            /\ At(params'[c], call'.id) =
                Some(IF c = "uniforms"
                     THEN <<Variant(call'.self.ty), call'.self.v>>
                     ELSE call'.self.v)
            /\ \A d \in CatSet : \A j \in Indices(params[d]) :
                (d # c \/ j # call'.id) => At(params'[d], j) = At(params[d], j)]_vars

\* two puts in a row left two slots of one array filled, the lower one not
\* by the last call
C14_Witness ==
    /\ kind = "param" /\ ops = <<"put", "put">> /\ pc = "put"
    /\ \E c \in CatSet : \E i, j \in Indices(params[c]) :
        /\ i < j /\ call.id = j /\ ArrayOf(call.self.ty) = c
        /\ At(params[c], i) # None /\ At(params[c], j) # None

\* the link holds an index the dictionary's list of that category lacks
StaleLink ==
    \E c \in CatSet : \E i \in Indices(res.link[c]) :
        At(res.link[c], i) >= Len(dict[c])

\* C15: a dictionary fill_params called with a link that holds an index >=
\* the length of the dictionary's list of that category ends aborted; it never
\* returns.
C15_StaleLinkAborts ==
    (kind = "dict" /\ res.tag = "Ok" /\ ops[2] = "fill" /\ StaleLink) =>
        pc = "aborted"

\* a fill was called, after a cell was removed, with an index that the
\* dictionary lacks and the storage has
C15_Witness ==
    /\ kind = "dict" /\ res.tag = "Ok" /\ ops = <<"remove", "fill">>
    /\ pc = "aborted"
    /\ \E c \in CatSet : \E i \in Indices(res.link[c]) :
        /\ At(res.link[c], i) >= Len(dict[c])
        /\ At(res.link[c], i) < Len(params[c])

\* C16: no create_link returns BadUniform, BadBlock or BadTexture, and the
\* dictionary create_link with Some(dictionary) returns a link whenever every
\* declared name has a cell, whatever the kinds of the cell values.
C16_NoKindMismatchError ==
    pc # "start" =>
        /\ res.tag = "Err" => res.err[1] \notin {"BadUniform", "BadBlock", "BadTexture"}
        /\ (kind = "dict" /\ src = "Some" /\ Unmatched = {}) => res.tag = "Ok"

\* a link was returned for a variable resolved to a cell whose value is of
\* another kind than the program declares
C16_Witness ==
    /\ kind = "dict" /\ pc = "linked" /\ ops[2] = "link"
    /\ \E c \in CatSet : \E i \in Indices(info[c]) :
        KindOf(At(dict[c], At(res.link[c], i)).value) # DeclaredKind(At(info[c], i))

\* C17: create_link leaves the cells as they are, and the link it returned
\* is the one create_link returns for the dictionary as it is now, after any
\* mutations of cell values: the link depends on the names and their order
\* only.
C17_LinkIgnoresValues ==
    [][/\ (pc = "start" /\ ops' = <<ops[2], "link">>) =>
            (dict' = dict /\ borrows' = borrows)
       /\ (kind' = "dict" /\ res'.tag = "Ok") =>
            DictCreateLink("Some", dict', info') = res']_vars

\* a link is held for a dictionary of which a referenced cell has changed
\* its value since
C17_Witness ==
    /\ kind = "dict" /\ res.tag = "Ok" /\ ops[2] = "set" /\ pc # "aborted"
    /\ PositionsOf(lastMut[1], lastMut[2]) # {}

\* C18: dictionary create_link with Some(dictionary) and a program declaring
\* no variable returns a link of three empty sequences whatever the
\* dictionary holds, and the fill_params that follows returns with the
\* storage as it was.
C18_EmptyProgramLinksAnyDictionary ==
    (kind = "dict" /\ src = "Some" /\ pc # "start" /\ TotalLen(info) = 0) =>
        /\ res = Ok([c \in CatSet |-> <<>>])
        /\ pc \in {"linked", "filled"}
        /\ ops[2] = "fill" => params = before

\* a dictionary with cells was linked against a program without variables
\* and filled into a storage that has slots
C18_Witness ==
    /\ kind = "dict" /\ src = "Some" /\ TotalLen(info) = 0
    /\ FillReturned
    /\ \E c \in CatSet : Len(dict[c]) >= 1 /\ Len(params[c]) >= 1

====
